---- MODULE Spec2Model ----
(***************************************************************************)
(* FloraLens: the App component (identification requests, view, reset,     *)
(* connectivity), the ChatBot component (initChat effect, handleSend, the  *)
(* local session) and the services they call (identifyPlant,               *)
(* identifyPlantLocal, checkLocalAICapability, createLocalSession,         *)
(* classifyImageOffline, initMediaPipe).                                   *)
(*                                                                         *)
(* One action is one run-to-completion piece of JavaScript: an event       *)
(* handler up to its first await that really suspends, or the continuation *)
(* of one await.  The state updates of one piece are batched by React, and *)
(* the effects the resulting render schedules (ChatBot mount, unmount,     *)
(* plantContext change) are part of the same action.  A handler's closure  *)
(* is the values of the render it was created in, so every pending async   *)
(* operation carries the values it captured.                               *)
(***************************************************************************)
EXTENDS Integers, Sequences, FiniteSets, TLC

\* ------------------------------------------------------------------ bounds
MaxHistory == 2     \* handleSend is not invoked once the history has this many turns
MaxSessions == 2    \* chat sessions the host creates before create() starts rejecting
MaxOrphans == 1     \* async operations of unmounted ChatBots still pending at a mount

\* --------------------------------------------------------------- PlantInfo
AllFields == {"commonName", "scientificName", "description",
              "careInstructions", "petFriendly", "funFact"}
CareFields == {"water", "light", "soil", "humidity", "temperature"}

\* A parsed JSON value: JavaScript null, or an object of which `fields` are the
\* top-level keys present and non-null, `care` the careInstructions keys, and
\* `empty` the keys among them whose value is the empty string.
NoPlant == [isNull |-> TRUE, commonName |-> "", fields |-> {}, care |-> {},
            empty |-> {}]
PlantObject(name, fs, cs) ==
    [isNull |-> FALSE, commonName |-> name, fields |-> fs, care |-> cs,
     empty |-> {}]

IsCompletePlantInfo(p) ==
    /\ ~p.isNull
    /\ p.fields = AllFields
    /\ p.care = CareFields

\* ------------------------------------------------------------ model output
\* Text is a sequence of tokens: a fence of three backticks, the word json, whitespace,
\* a JSON document, or other prose.
Fence == [t |-> "fence", d |-> ""]
JsonWord == [t |-> "json", d |-> ""]
Ws == [t |-> "ws", d |-> ""]
Prose == [t |-> "prose", d |-> ""]
Doc(d) == [t |-> "doc", d |-> d]

\* The documents: complete records, records with a key missing or blank, the
\* document null, and a record whose commonName holds a fence inside the string
\* ("fenceInName"), with the document the same text is without that fence.
Documents == {"rose", "fern", "noFunFact", "careNoSoil", "blankFunFact", "null",
              "fenceInName", "fenceRemoved"}

\* What JSON.parse yields for each document.
JsonValue(d) ==
    CASE d = "rose" -> PlantObject("Rose", AllFields, CareFields)
      [] d = "fern" -> PlantObject("Fern", AllFields, CareFields)
      [] d = "noFunFact" -> PlantObject("Ivy", AllFields \ {"funFact"}, CareFields)
      [] d = "careNoSoil" -> PlantObject("Moss", AllFields, CareFields \ {"soil"})
      [] d = "blankFunFact" ->
             [PlantObject("Lily", AllFields, CareFields) EXCEPT !.empty = {"funFact"}]
      \* FENCE stands for the three backticks
      [] d = "fenceInName" -> PlantObject("Mint FENCE Tea", AllFields, CareFields)
      [] d = "fenceRemoved" -> PlantObject("Mint  Tea", AllFields, CareFields)
      [] OTHER -> NoPlant

\* A document's text with every fence in it removed: the regular expressions
\* of identifyPlantLocal are global and look inside the document as well.
DocWithoutFences(d) == IF d = "fenceInName" THEN "fenceRemoved" ELSE d

RECURSIVE StripFenceJson(_)
\* result.replace(/FENCEjson/g, ''), FENCE being the three backticks (in no
\* document is a fence followed by json)
StripFenceJson(s) ==
    IF Len(s) = 0 THEN <<>>
    ELSE IF Len(s) >= 2 /\ s[1] = Fence /\ s[2] = JsonWord
         THEN StripFenceJson(SubSeq(s, 3, Len(s)))
         ELSE <<s[1]>> \o StripFenceJson(Tail(s))

\* .replace(/FENCE/g, ''): the fences between the tokens and those inside a
\* document
StripFence(s) ==
    LET kept == SelectSeq(s, LAMBDA tok : tok # Fence)
    IN [i \in 1..Len(kept) |->
           IF kept[i].t = "doc" THEN Doc(DocWithoutFences(kept[i].d)) ELSE kept[i]]

RECURSIVE TrimLeft(_)
TrimLeft(s) ==
    IF Len(s) > 0 /\ s[1] = Ws THEN TrimLeft(Tail(s)) ELSE s

RECURSIVE TrimRight(_)
TrimRight(s) ==
    IF Len(s) > 0 /\ s[Len(s)] = Ws THEN TrimRight(SubSeq(s, 1, Len(s) - 1)) ELSE s

\* String.prototype.trim
Trim(s) == TrimRight(TrimLeft(s))

\* JSON.parse: one document, with whitespace allowed around it; anything else throws.
JSONParse(s) ==
    LET body == Trim(s) IN
    IF Len(body) = 1 /\ body[1].t = "doc"
    THEN [ok |-> TRUE, value |-> JsonValue(body[1].d)]
    ELSE [ok |-> FALSE, value |-> NoPlant]

\* The try block of identifyPlantLocal applied to the text session.prompt returned:
\* strip the fences, trim, parse, return the parsed value as it is.
ParseLocalResult(result) ==
    JSONParse(Trim(StripFence(StripFenceJson(result))))

\* The texts the local model returns in the application model.
LocalTexts ==
    { <<Doc("fern")>>,
      <<Fence, JsonWord, Ws, Doc("fern"), Ws, Fence>>,
      <<Fence, JsonWord, Doc("noFunFact"), Fence>>,
      <<Fence, JsonWord, Ws, Doc("fenceInName"), Ws, Fence>>,
      <<Doc("noFunFact")>>,
      <<Doc("null")>>,
      <<Prose, Doc("fern")>> }

\* A variant of RequiredTop that does not require funFact; C18 fails for it.
RequiredTopWithoutFunFact == AllFields \ {"funFact"}

\* The `required` lists of the responseSchema identifyPlant sends.
RequiredTop == {"commonName", "scientificName", "description",
                "careInstructions", "petFriendly", "funFact"}
RequiredCare == {"water", "light", "soil", "humidity", "temperature"}

\* What the responseSchema admits: an object with every required key; the
\* schema's STRING type admits the empty string.
SchemaConforming(v) ==
    /\ ~v.isNull
    /\ RequiredTop \subseteq v.fields
    /\ RequiredCare \subseteq v.care

\* The documents the provider, held to the schema, may answer with.
CloudDocs == {d \in Documents : SchemaConforming(JsonValue(d))}

\* The cloud provider's answers to a call: a text, no text, or a failure.
CloudAnswers == {"text", "empty", "error"}
\* The answers to identifyPlant's generateContent: those, or the text of one of
\* the schema-conforming documents.
IdentifyAnswers == CloudAnswers \cup CloudDocs
CloudText(a) ==
    IF a = "text" THEN <<Doc("rose")>>
    ELSE IF a \in CloudDocs THEN <<Doc(a)>>
    ELSE <<>>

\* identifyPlant with the provider answering a: what it returns, or the error it
\* throws.  Without an API key getAiClient throws before the try block; the
\* provider's failure is caught, logged and thrown again as it is; no text is
\* an error of its own; a text is parsed and the parsed value returned.
IdentifyPlantResult(hasKey, a) ==
    IF ~hasKey THEN [ok |-> FALSE, value |-> NoPlant, err |-> "noApiKey"]
    ELSE IF a = "error" THEN [ok |-> FALSE, value |-> NoPlant, err |-> "provider"]
    ELSE IF Len(CloudText(a)) = 0
    THEN [ok |-> FALSE, value |-> NoPlant, err |-> "noText"]
    ELSE LET parsed == JSONParse(CloudText(a))
         IN [ok |-> parsed.ok, value |-> parsed.value,
             err |-> IF parsed.ok THEN "none" ELSE "syntax"]

\* ----------------------------------------------------------------- state
VARIABLES
    \* App state (useState)
    view, plantData, selectedImage, isAnalyzing, error, isOnline, isOfflineAnalysis,
    \* mediaPipeService module state: "loading" (initMediaPipe pending, classifier
    \* null), "unloaded" (init failed, classifier null), "loaded"
    imageClassifier,
    \* host: whether window.ai exists
    windowAi,
    \* build: whether process.env.API_KEY is defined
    apiKey,
    \* handleFileSelect invocations in flight, with what each captured
    reqs,
    \* the handleFileSelect invocation that finished last, until the next one
    \* starts or the App is reset
    lastReq,
    \* TRUE from resetApp until the next handleFileSelect request starts
    resetSinceStart,
    \* ChatBot state (useState) of the mounted ChatBot
    history, isLoading, isLocalAI, localSession,
    \* the localSession captured by the cleanup of the ChatBot effect that ran last
    cleanupSession,
    \* initChat and handleSend invocations in flight (of any ChatBot instance)
    inits, sends,
    \* every session createLocalSession returned, in creation order
    sessions,
    \* how the last handleSend of the mounted ChatBot that passed the first guard
    \* went: "blocked" by the offline check (which the disabled controls keep
    \* from being reached), "started" a provider call, "threw" in sendChatMessage
    \* before any await, or answered with the "static" message ("none": no such
    \* handleSend yet)
    lastSend

appVars == <<view, plantData, selectedImage, isAnalyzing, error, isOnline,
             isOfflineAnalysis, imageClassifier, windowAi, apiKey, reqs, lastReq,
             resetSinceStart>>
chatVars == <<history, isLoading, isLocalAI, localSession, cleanupSession,
              inits, sends, sessions, lastSend>>
vars == <<appVars, chatVars>>

NoSession == 0
NoError == "null"
ErrHeic == "Could not process HEIC image. Please try a JPEG or PNG."
ErrOnline == "Failed to identify the plant. Please try another clear photo."
ErrOffline == "Offline identification failed. Try a clearer photo or reconnect to internet."

Remove(s, i) == SubSeq(s, 1, i - 1) \o SubSeq(s, i + 1, Len(s))

NoReq == [online |-> FALSE, strategy |-> "none", calls |-> <<>>,
          requests |-> 0, thrown |-> "none", startClassifier |-> "none",
          classified |-> "no", labels |-> <<>>, session |-> "none",
          destroys |-> 0, text |-> <<>>, result |-> "none", data |-> NoPlant]

\* ------------------------------------------------------- ChatBot: the effect
\* One turn of the history (the timestamp is not modelled).  `about` is the
\* commonName a greeting interpolates.
Turn(role, kind, about) == [role |-> role, kind |-> kind, about |-> about]

\* The greeting initChat synthesizes for the plantContext it captured.
Greeting(ctx) ==
    IF ctx.isNull
    THEN Turn("model", "hello", "")
    ELSE Turn("model", "greeting",
              IF "commonName" \in ctx.fields THEN ctx.commonName ELSE "undefined")

\* checkLocalAICapability: avail is what capabilities() reports, or "throws".
Availabilities == {"readily", "after-download", "no", "throws"}
\* A variant of CheckLocalAICapability that takes a model still to be
\* downloaded for available; C22 fails for it.
CheckLocalAICapabilityDownloadable(hasAi, avail) ==
    hasAi /\ avail \in {"readily", "after-download"}

CheckLocalAICapability(hasAi, avail) ==
    IF ~hasAi THEN FALSE
    ELSE IF avail = "throws" THEN FALSE
    ELSE avail = "readily"

\* The ChatBot's state and the shared collections, as one record.
Chat == [history |-> history, isLoading |-> isLoading, isLocalAI |-> isLocalAI,
         localSession |-> localSession, cleanupSession |-> cleanupSession,
         inits |-> inits, sends |-> sends, sessions |-> sessions,
         lastSend |-> lastSend]

SetChat(c) ==
    /\ history' = c.history
    /\ isLoading' = c.isLoading
    /\ isLocalAI' = c.isLocalAI
    /\ localSession' = c.localSession
    /\ cleanupSession' = c.cleanupSession
    /\ inits' = c.inits
    /\ sends' = c.sends
    /\ sessions' = c.sessions
    /\ lastSend' = c.lastSend

\* session.destroy() on the session a closure holds (null: nothing to destroy)
Destroy(c, sid) ==
    IF sid = NoSession THEN c
    ELSE [c EXCEPT !.sessions[sid].alive = FALSE]

\* The body of the effect: initChat() is called with the values of the render the
\* effect belongs to, and the cleanup it returns captures that render's
\* localSession.  Without window.ai checkLocalAICapability returns at once, so
\* initChat runs to its end before anything else can happen.
RunEffect(c, ctx) ==
    LET d == [c EXCEPT !.cleanupSession = c.localSession] IN
    IF windowAi
    THEN [d EXCEPT !.inits = Append(@, [pc |-> "probe", sess |-> c.localSession,
                                        histEmpty |-> c.history = <<>>,
                                        ctx |-> ctx, live |-> TRUE])]
    ELSE [d EXCEPT !.isLocalAI = CheckLocalAICapability(FALSE, "no"),
                   !.history = IF c.history = <<>> THEN <<Greeting(ctx)>> ELSE @]

\* The async operations an unmounted ChatBot leaves behind: their state updates
\* are ignored from now on.  An initChat that captured a session creates none and
\* so has nothing left to do; of the others, the captured history is no longer
\* read, nor is the session a handleSend captured (prompt was called at its start).
OrphanedSends(ops) ==
    [i \in 1..Len(ops) |-> [ops[i] EXCEPT !.live = FALSE, !.sess = NoSession]]
OrphanedInits(ops) ==
    LET kept == SelectSeq(ops, LAMBDA r : r.sess = NoSession)
    IN [i \in 1..Len(kept) |-> [kept[i] EXCEPT !.live = FALSE, !.histEmpty = FALSE]]

\* A ChatBot is mounted: fresh useState values, then the effect.
MountChat(ctx) ==
    RunEffect([Chat EXCEPT !.history = <<>>, !.isLoading = FALSE,
                           !.isLocalAI = FALSE, !.localSession = NoSession,
                           !.cleanupSession = NoSession, !.lastSend = "none"], ctx)

\* The ChatBot is unmounted: the last effect's cleanup runs, the component state
\* is gone, and what its async operations set later is ignored.
UnmountChat ==
    [Destroy(Chat, cleanupSession)
       EXCEPT !.history = <<>>, !.isLoading = FALSE, !.isLocalAI = FALSE,
              !.localSession = NoSession, !.cleanupSession = NoSession,
              !.lastSend = "none",
              !.inits = OrphanedInits(inits), !.sends = OrphanedSends(sends)]

\* A variant of ContextChanged whose cleanup destroys the session the state
\* holds now, not the one its render captured; C26 fails for it.
ContextChangedDestroyingCurrent(ctx) == RunEffect(Destroy(Chat, localSession), ctx)

\* plantContext changed under a mounted ChatBot: cleanup of the previous effect,
\* then the effect again with the current render's values.
ContextChanged(ctx) == RunEffect(Destroy(Chat, cleanupSession), ctx)

\* What the ChatBot does when an App handler has run and the App renders again:
\* it is mounted when the view becomes CHAT, unmounted when the view leaves CHAT,
\* and its effect runs again when its plantContext prop (plantData || undefined)
\* changed.  A mount is not taken while more than MaxOrphans operations of
\* earlier ChatBots are pending.
ChatFollows ==
    IF view = "CHAT" /\ view' = "CHAT"
    THEN IF plantData' # plantData
         THEN SetChat(ContextChanged(plantData'))
         ELSE UNCHANGED chatVars
    ELSE IF view = "CHAT" THEN SetChat(UnmountChat)
    ELSE IF view' = "CHAT"
    THEN /\ Len(inits) + Len(sends) <= MaxOrphans
         /\ SetChat(MountChat(plantData'))
    ELSE UNCHANGED chatVars

\* ------------------------------------------------------------ App: requests
\* A file the user picks: absent (dialog cancelled), or a file that is HEIC or
\* not, and whose image (after conversion) the browser can decode or not.
Files == [present : BOOLEAN, heic : BOOLEAN, decodable : BOOLEAN]

\* The file inputs are rendered in the ANALYZE view only: the hero's when
\* !selectedImage && !isAnalyzing, the edit button's when !isAnalyzing.
FileInputRendered ==
    /\ view = "ANALYZE"
    /\ \/ ~selectedImage /\ ~isAnalyzing
       \/ ~(~selectedImage /\ ~isAnalyzing) /\ ~isAnalyzing

\* What the App renders in <main>: the ChatBot in the CHAT view; in the ANALYZE
\* view the hero when !selectedImage && !isAnalyzing, else the analysis layout,
\* whose right column shows the error panel, else the report, else the
\* waiting placeholder unless an analysis is running.
MainContent ==
    IF view = "CHAT" THEN "chat"
    ELSE IF ~selectedImage /\ ~isAnalyzing THEN "hero"
    ELSE IF error # NoError THEN "errorPanel"
    ELSE IF plantData # NoPlant THEN "report"
    ELSE IF ~isAnalyzing THEN "waiting"
    ELSE "analyzing"

\* A variant of EnterStrategy that branches on the connectivity flag as it is when
\* the branch is reached, not as the handler captured it; C1 fails for it.
EnterStrategyCurrentOnline(r) ==
    IF isOnline
    THEN [r EXCEPT !.pc = "read", !.strategy = "cloud"]
    ELSE [r EXCEPT !.pc = "imgLoad", !.strategy = "offline"]

\* After `const objectUrl = ...; setSelectedImage(objectUrl)`: the branch on the
\* captured isOnline, up to the await of the branch taken.
EnterStrategy(r) ==
    IF r.online
    THEN [r EXCEPT !.pc = "read", !.strategy = "cloud"]
    ELSE [r EXCEPT !.pc = "imgLoad", !.strategy = "offline"]

Summary(r, result, data) ==
    [online |-> r.online, strategy |-> r.strategy, calls |-> r.calls,
     requests |-> r.requests, thrown |-> r.thrown,
     startClassifier |-> r.startClassifier,
     classified |-> r.classified, labels |-> r.labels, session |-> r.session,
     destroys |-> r.destroys,
     text |-> r.text, result |-> result, data |-> data]

\* A variant of HandleFileSelect that keeps the record of the request before;
\* C28 fails for it.
HandleFileSelectKeepingRecord(file) ==
    /\ FileInputRendered
    /\ IF ~file.present
       THEN UNCHANGED appVars
       ELSE LET r == [pc |-> "heic", online |-> isOnline, decodable |-> file.decodable,
                      strategy |-> "none", calls |-> <<>>,
                      \* the generateContent requests identifyPlant has sent
                      \* to the provider, and the error identifyPlant threw
                      requests |-> 0, thrown |-> "none",
                      \* the classifier's state when the request started
                      startClassifier |-> imageClassifier,
                      \* whether classifyImageOffline returned ("yes"), threw
                      \* or was not called, and the labels it returned;
                      \* identifyPlantLocal's own session, the destroy() calls
                      \* on it, and the text its prompt resolved with
                      classified |-> "no", labels |-> <<>>, session |-> "none",
                      destroys |-> 0, text |-> <<>>]
            IN /\ error' = NoError
               /\ plantData' = plantData
               /\ isAnalyzing' = TRUE
               /\ resetSinceStart' = FALSE
               /\ lastReq' = NoReq
               /\ IF file.heic
                  THEN /\ selectedImage' = FALSE
                       /\ isOfflineAnalysis' = FALSE
                       /\ reqs' = Append(reqs, r)
                  ELSE /\ selectedImage' = TRUE
                       /\ isOfflineAnalysis' = ~isOnline
                       /\ reqs' = Append(reqs, EnterStrategy(r))
               /\ UNCHANGED <<view, isOnline, imageClassifier, windowAi, apiKey>>

\* handleFileSelect, from the change event to its first await.
HandleFileSelect(file) ==
    /\ FileInputRendered
    /\ IF ~file.present
       THEN UNCHANGED appVars
       ELSE LET r == [pc |-> "heic", online |-> isOnline, decodable |-> file.decodable,
                      strategy |-> "none", calls |-> <<>>,
                      \* the generateContent requests identifyPlant has sent
                      \* to the provider, and the error identifyPlant threw
                      requests |-> 0, thrown |-> "none",
                      \* the classifier's state when the request started
                      startClassifier |-> imageClassifier,
                      \* whether classifyImageOffline returned ("yes"), threw
                      \* or was not called, and the labels it returned;
                      \* identifyPlantLocal's own session, the destroy() calls
                      \* on it, and the text its prompt resolved with
                      classified |-> "no", labels |-> <<>>, session |-> "none",
                      destroys |-> 0, text |-> <<>>]
            IN /\ error' = NoError
               /\ plantData' = NoPlant
               /\ isAnalyzing' = TRUE
               /\ resetSinceStart' = FALSE
               /\ lastReq' = NoReq
               /\ IF file.heic
                  THEN /\ selectedImage' = FALSE
                       /\ isOfflineAnalysis' = FALSE
                       /\ reqs' = Append(reqs, r)
                  ELSE /\ selectedImage' = TRUE
                       /\ isOfflineAnalysis' = ~isOnline
                       /\ reqs' = Append(reqs, EnterStrategy(r))
               /\ UNCHANGED <<view, isOnline, imageClassifier, windowAi, apiKey>>

\* The catch and finally of handleFileSelect's main try.
ReqFails(i, r) ==
    /\ error' = (IF r.online THEN ErrOnline ELSE ErrOffline)
    /\ isAnalyzing' = FALSE
    /\ reqs' = Remove(reqs, i)
    /\ lastReq' = Summary(r, "failure", NoPlant)
    /\ UNCHANGED <<view, plantData, selectedImage, isOnline, isOfflineAnalysis,
                   imageClassifier, windowAi, apiKey, resetSinceStart>>

\* setPlantData(data) and the finally of handleFileSelect's main try.
ReqSucceeds(i, r, data) ==
    /\ plantData' = data
    /\ isAnalyzing' = FALSE
    /\ reqs' = Remove(reqs, i)
    /\ lastReq' = Summary(r, "success", data)
    /\ UNCHANGED <<view, error, selectedImage, isOnline, isOfflineAnalysis,
                   imageClassifier, windowAi, apiKey, resetSinceStart>>

ReqMoves(i, r) ==
    /\ reqs' = [reqs EXCEPT ![i] = r]
    /\ UNCHANGED <<view, plantData, error, isAnalyzing, isOnline, imageClassifier,
                   windowAi, apiKey, lastReq, resetSinceStart>>

\* heic2any settles.
HeicDone(i, ok) ==
    /\ i \in 1..Len(reqs)
    /\ reqs[i].pc = "heic"
    /\ IF ok
       THEN /\ selectedImage' = TRUE
            /\ isOfflineAnalysis' = (IF reqs[i].online THEN isOfflineAnalysis ELSE TRUE)
            /\ ReqMoves(i, EnterStrategy(reqs[i]))
       ELSE /\ error' = ErrHeic
            /\ isAnalyzing' = FALSE
            /\ reqs' = Remove(reqs, i)
            /\ lastReq' = Summary(reqs[i], "failure", NoPlant)
            /\ UNCHANGED <<view, plantData, selectedImage, isOnline, isOfflineAnalysis,
                           imageClassifier, windowAi, apiKey, resetSinceStart>>

\* A variant of ApiKeyMissing for a getAiClient that does not look at the key;
\* C23 fails for it.
ApiKeyMissingNever == FALSE

\* `if (!apiKey) throw` of getAiClient: no request is sent without a key.
ApiKeyMissing == ~apiKey

\* The FileReader settles; on success identifyPlant is called.  Without a key
\* getAiClient throws before identifyPlant's first await, so the handler's
\* catch and finally run in the same turn; with a key identifyPlant sends its
\* request and the handler awaits it.
ReadDone(i, ok) ==
    /\ i \in 1..Len(reqs)
    /\ reqs[i].pc = "read"
    /\ IF ~ok
       THEN ReqFails(i, reqs[i])
       ELSE IF ApiKeyMissing
       THEN ReqFails(i, [reqs[i] EXCEPT !.calls = Append(@, "identifyPlant"),
                                        !.thrown = "noApiKey"])
       ELSE /\ ReqMoves(i, [reqs[i] EXCEPT !.pc = "cloud",
                                           !.calls = Append(@, "identifyPlant"),
                                           !.requests = @ + 1])
            /\ UNCHANGED <<selectedImage, isOfflineAnalysis>>

\* A variant of IdentifyPlantDone that sends the request once more when the
\* provider failed; C21 fails for it.
IdentifyPlantDoneRetrying(i, a) ==
    /\ i \in 1..Len(reqs)
    /\ reqs[i].pc = "cloud"
    /\ LET res == IdentifyPlantResult(apiKey, a) IN
       IF res.ok THEN ReqSucceeds(i, reqs[i], res.value)
       ELSE IF res.err = "provider" /\ reqs[i].requests < 2
       THEN /\ ReqMoves(i, [reqs[i] EXCEPT !.requests = @ + 1])
            /\ UNCHANGED <<selectedImage, isOfflineAnalysis>>
       ELSE ReqFails(i, [reqs[i] EXCEPT !.thrown = res.err])

\* identifyPlant settles: generateContent settled.
IdentifyPlantDone(i, a) ==
    /\ i \in 1..Len(reqs)
    /\ reqs[i].pc = "cloud"
    /\ LET res == IdentifyPlantResult(apiKey, a) IN
       IF res.ok THEN ReqSucceeds(i, reqs[i], res.value)
       ELSE ReqFails(i, [reqs[i] EXCEPT !.thrown = res.err])

\* A variant of ClassifyImageOffline without the check of the classifier; C25
\* fails for it.
ClassifyImageOfflineUnchecked(classifier, labels) ==
    [ok |-> TRUE, labels |-> labels]

\* classifyImageOffline: throws while the classifier is null, else the labels.
ClassifyImageOffline(classifier, labels) ==
    IF classifier # "loaded" THEN [ok |-> FALSE, labels |-> <<>>]
    ELSE [ok |-> TRUE, labels |-> labels]

LabelLists == {<<>>, <<"rose", "flower", "plant">>}

\* A variant of NoLabels that lets an empty label list through; C11 fails for it.
NoLabelsNever(labels) == FALSE

\* `if (labels.length === 0) throw` of handleFileSelect.
NoLabels(labels) == Len(labels) = 0

\* img.onload fires (it never does for an image that cannot be decoded): classify,
\* check the labels, and enter identifyPlantLocal up to its await of create().
ImgLoaded(i, labels) ==
    /\ i \in 1..Len(reqs)
    /\ reqs[i].pc = "imgLoad"
    /\ reqs[i].decodable
    /\ LET c == ClassifyImageOffline(imageClassifier, labels)
           r1 == [reqs[i] EXCEPT !.calls = Append(@, "classifyImageOffline"),
                                 !.classified = IF c.ok THEN "yes" ELSE "threw",
                                 !.labels = c.labels]
           r2 == [r1 EXCEPT !.calls = Append(@, "identifyPlantLocal")]
       IN IF ~c.ok \/ NoLabels(c.labels) THEN ReqFails(i, r1)
          ELSE IF ~windowAi THEN ReqFails(i, r2)
          ELSE /\ ReqMoves(i, [r2 EXCEPT !.pc = "create"])
               /\ UNCHANGED <<selectedImage, isOfflineAnalysis>>

\* window.ai.languageModel.create settles inside identifyPlantLocal (outside its try).
LocalCreateDone(i, ok) ==
    /\ i \in 1..Len(reqs)
    /\ reqs[i].pc = "create"
    /\ IF ok
       THEN /\ ReqMoves(i, [reqs[i] EXCEPT !.pc = "prompt", !.session = "alive"])
            /\ UNCHANGED <<selectedImage, isOfflineAnalysis>>
       ELSE ReqFails(i, reqs[i])

\* A variant of IdentifyPlantLocalResult whose catch does not destroy the
\* session; C12 fails for it.
IdentifyPlantLocalResultLeaky(promptOk, text) ==
    LET parsed == ParseLocalResult(text) IN
    IF promptOk /\ parsed.ok
    THEN [ok |-> TRUE, value |-> parsed.value, destroys |-> 1]
    ELSE [ok |-> FALSE, value |-> NoPlant, destroys |-> 0]

\* The rest of identifyPlantLocal once session.prompt settled: with a text, parse
\* it and destroy the session; on any throw, destroy the session and throw.
\* `destroys` counts the session.destroy() calls of the path taken.
IdentifyPlantLocalResult(promptOk, text) ==
    LET parsed == ParseLocalResult(text) IN
    IF promptOk /\ parsed.ok
    THEN [ok |-> TRUE, value |-> parsed.value, destroys |-> 1]
    ELSE [ok |-> FALSE, value |-> NoPlant, destroys |-> 1]

LocalPromptDone(i, promptOk, text) ==
    /\ i \in 1..Len(reqs)
    /\ reqs[i].pc = "prompt"
    /\ LET res == IdentifyPlantLocalResult(promptOk, text)
           r == [reqs[i] EXCEPT !.session = IF res.destroys > 0 THEN "destroyed" ELSE @,
                                !.destroys = @ + res.destroys,
                                !.text = IF promptOk THEN text ELSE <<>>]
       IN IF res.ok THEN ReqSucceeds(i, r, res.value)
          ELSE ReqFails(i, r)

\* ------------------------------------------------- App: the other handlers
\* resetApp (the logo).
ResetApp ==
    /\ selectedImage' = FALSE
    /\ plantData' = NoPlant
    /\ error' = NoError
    /\ view' = "ANALYZE"
    /\ isOfflineAnalysis' = FALSE
    /\ resetSinceStart' = TRUE
    /\ lastReq' = NoReq
    /\ UNCHANGED <<isAnalyzing, isOnline, imageClassifier, windowAi, apiKey, reqs>>

\* setView (the two nav buttons and Ask Assistant).
SetView(v) ==
    /\ view' = v
    /\ UNCHANGED <<plantData, selectedImage, isAnalyzing, error, isOnline,
                   isOfflineAnalysis, imageClassifier, windowAi, apiKey, reqs, lastReq,
                   resetSinceStart>>

\* A variant of Connectivity that abandons the request in flight; C17 fails
\* for it.
ConnectivityCancels(online) ==
    /\ isOnline' = online
    /\ reqs' = <<>>
    /\ isAnalyzing' = FALSE
    /\ UNCHANGED <<view, plantData, selectedImage, error, isOfflineAnalysis,
                   imageClassifier, windowAi, apiKey, lastReq, resetSinceStart>>

\* The window's online and offline events.
Connectivity(online) ==
    /\ isOnline' = online
    /\ UNCHANGED <<view, plantData, selectedImage, isAnalyzing, error,
                   isOfflineAnalysis, imageClassifier, windowAi, apiKey, reqs, lastReq,
                   resetSinceStart>>

\* initMediaPipe, called once when the App mounts, settles: the classifier is set
\* on success and stays null on failure (the error is logged, not thrown).
InitMediaPipeDone(ok) ==
    /\ imageClassifier = "loading"
    /\ imageClassifier' = (IF ok THEN "loaded" ELSE "unloaded")
    /\ UNCHANGED <<view, plantData, selectedImage, isAnalyzing, error, isOnline,
                   isOfflineAnalysis, windowAi, apiKey, reqs, lastReq, resetSinceStart>>

\* ----------------------------------------------------- ChatBot: initChat
\* `if (history.length === 0) setHistory([greeting])` with the history initChat
\* captured; an unmounted ChatBot's updates are ignored.
SetGreeting(c, r) ==
    IF r.live /\ r.histEmpty THEN [c EXCEPT !.history = <<Greeting(r.ctx)>>] ELSE c

\* capabilities() settles inside checkLocalAICapability and initChat continues to
\* its await of createLocalSession, or to its end.
InitProbeDone(i, avail) ==
    /\ i \in 1..Len(inits)
    /\ inits[i].pc = "probe"
    /\ LET r == inits[i]
           localAvailable == CheckLocalAICapability(windowAi, avail)
           c == IF r.live THEN [Chat EXCEPT !.isLocalAI = localAvailable] ELSE Chat
       IN IF localAvailable /\ r.sess = NoSession
          THEN SetChat([c EXCEPT !.inits[i].pc = "create"])
          ELSE SetChat([SetGreeting(c, r) EXCEPT !.inits = Remove(inits, i)])
    /\ UNCHANGED appVars

\* createLocalSession: the session create() resolves with, for the context given.
CreateLocalSession(ctx) == [ctx |-> ctx, alive |-> TRUE]

\* create() settles inside createLocalSession and initChat runs to its end.
InitCreateDone(i, ok) ==
    /\ i \in 1..Len(inits)
    /\ inits[i].pc = "create"
    /\ ok => Len(sessions) < MaxSessions
    /\ LET r == inits[i]
           c == IF ok
                THEN [Chat EXCEPT !.sessions = Append(@, CreateLocalSession(r.ctx)),
                                  !.localSession = IF r.live THEN Len(sessions) + 1 ELSE @]
                ELSE [Chat EXCEPT !.isLocalAI = IF r.live THEN FALSE ELSE @]
       IN SetChat([SetGreeting(c, r) EXCEPT !.inits = Remove(inits, i)])
    /\ UNCHANGED appVars

\* --------------------------------------------------- ChatBot: handleSend
Inputs == {"", "  ", "q"}
\* input.trim()
InputTrim(txt) == IF txt = "  " THEN "" ELSE txt

UserTurn == Turn("user", "question", "")
LocalReply == Turn("model", "localReply", "")
CloudReply == Turn("model", "cloudReply", "")
\* "I'm sorry, I couldn't generate a response."
EmptyFallback == Turn("model", "emptyFallback", "")
\* "I'm having trouble processing that offline. Please reconnect to the internet."
Apology == Turn("model", "apology", "")
\* "I cannot connect to the cloud right now. Please check your internet connection."
CannotConnect == Turn("model", "cannotConnect", "")
\* "Sorry, I seem to have lost my connection to the garden. Please try again shortly."
LostConnection == Turn("model", "lostConnection", "")

\* A variant of IsInputDisabled that disables the controls only while busy; C6
\* fails for it.
IsInputDisabledBusyOnly == isLoading

\* isInputDisabled: the textarea (Enter calls handleSend) and the send button
\* are disabled while it holds, so handleSend cannot be called then.
IsInputDisabled == isLoading \/ (~isOnline /\ ~isLocalAI)

\* The first guard of handleSend.
SendIgnored(txt) == InputTrim(txt) = "" \/ isLoading

\* The "safety check for offline" of handleSend.
SendBlocked == ~isOnline /\ ~isLocalAI

\* A variant of UseLocal that leaves the local session
\* to the offline case; C14 fails for it.
UseLocalOfflineOnly == isLocalAI /\ localSession # NoSession /\ ~isOnline

\* `if (isLocalAI && localSession)` of handleSend.
UseLocal == isLocalAI /\ localSession # NoSession

\* The handleSend invocation that starts: what it captured, how often it has
\* called sendChatMessage, and whether its local prompt threw.
NewSend(pc) ==
    [pc |-> pc, online |-> isOnline, sess |-> localSession, live |-> TRUE,
     cloudCalls |-> IF pc = "cloud" THEN 1 ELSE 0, fellBack |-> FALSE,
     \* the sendMessage requests sendChatMessage has sent to the provider
     requests |-> IF pc = "cloud" THEN 1 ELSE 0]

\* A variant of HandleSend that does not set the busy flag; C10 fails for it.
HandleSendNotBusy(txt) ==
    /\ view = "CHAT"
    /\ ~IsInputDisabled
    /\ Len(history) < MaxHistory
    /\ IF SendIgnored(txt)
       THEN UNCHANGED chatVars
       ELSE IF SendBlocked
       THEN SetChat([Chat EXCEPT !.lastSend = "blocked"])
       ELSE IF UseLocal
       THEN SetChat([Chat EXCEPT !.history = Append(@, UserTurn),
                                 !.sends = Append(@, NewSend("prompt")),
                                 !.lastSend = "started"])
       ELSE IF isOnline
       THEN IF ApiKeyMissing
            THEN SetChat([Chat EXCEPT !.history = @ \o <<UserTurn, LostConnection>>,
                                      !.lastSend = "threw"])
            ELSE SetChat([Chat EXCEPT !.history = Append(@, UserTurn),
                                      !.sends = Append(@, NewSend("cloud")),
                                      !.lastSend = "started"])
       ELSE SetChat([Chat EXCEPT !.history = @ \o <<UserTurn, CannotConnect>>,
                                 !.isLoading = FALSE,
                                 !.lastSend = "static"])
    /\ UNCHANGED appVars

\* handleSend with the textarea holding txt, up to its first await, or to its
\* end when nothing is awaited: no provider is called, or sendChatMessage
\* throws in getAiClient, before its own await, and the catch and the finally
\* of handleSend run in the same turn.
HandleSend(txt) ==
    /\ view = "CHAT"
    /\ ~IsInputDisabled
    /\ Len(history) < MaxHistory
    /\ IF SendIgnored(txt)
       THEN UNCHANGED chatVars
       ELSE IF SendBlocked
       THEN SetChat([Chat EXCEPT !.lastSend = "blocked"])
       ELSE IF UseLocal
       THEN SetChat([Chat EXCEPT !.history = Append(@, UserTurn),
                                 !.isLoading = TRUE,
                                 !.sends = Append(@, NewSend("prompt")),
                                 !.lastSend = "started"])
       ELSE IF isOnline
       THEN IF ApiKeyMissing
            THEN SetChat([Chat EXCEPT !.history = @ \o <<UserTurn, LostConnection>>,
                                      !.isLoading = FALSE,
                                      !.lastSend = "threw"])
            ELSE SetChat([Chat EXCEPT !.history = Append(@, UserTurn),
                                      !.isLoading = TRUE,
                                      !.sends = Append(@, NewSend("cloud")),
                                      !.lastSend = "started"])
       ELSE SetChat([Chat EXCEPT !.history = @ \o <<UserTurn, CannotConnect>>,
                                 !.isLoading = FALSE,
                                 !.lastSend = "static"])
    /\ UNCHANGED appVars

\* A variant of SendEnds without the finally that clears isLoading; C29 fails
\* for it.
SendEndsStillLoading(i, turn) ==
    LET c == IF sends[i].live
             THEN [Chat EXCEPT !.history = Append(@, turn)]
             ELSE Chat
    IN SetChat([c EXCEPT !.sends = Remove(sends, i)])

\* The model turn is appended and the finally clears isLoading; an unmounted
\* ChatBot's updates are ignored.
SendEnds(i, turn) ==
    LET c == IF sends[i].live
             THEN [Chat EXCEPT !.history = Append(@, turn), !.isLoading = FALSE]
             ELSE Chat
    IN SetChat([c EXCEPT !.sends = Remove(sends, i)])

\* A variant of PromptDone that answers a failed prompt with the apology
\* whatever the connectivity; C13 fails for it.
PromptDoneNoFallback(i, ok) ==
    /\ i \in 1..Len(sends)
    /\ sends[i].pc = "prompt"
    /\ IF ok THEN SendEnds(i, LocalReply)
       ELSE SendEnds(i, Apology)
    /\ UNCHANGED appVars

\* A variant of PromptDone that falls back to the cloud whatever the
\* connectivity; C15 fails for it.
PromptDoneAlwaysFallback(i, ok) ==
    /\ i \in 1..Len(sends)
    /\ sends[i].pc = "prompt"
    /\ IF ok THEN SendEnds(i, LocalReply)
       ELSE SetChat([Chat EXCEPT !.sends[i].pc = "cloud",
                                 !.sends[i].cloudCalls = @ + 1,
                                 !.sends[i].fellBack = TRUE])
    /\ UNCHANGED appVars

\* localSession.prompt settles.  The fallback sendChatMessage throws at once
\* without a key, and the outer catch and the finally run in the same turn.
PromptDone(i, ok) ==
    /\ i \in 1..Len(sends)
    /\ sends[i].pc = "prompt"
    /\ IF ok THEN SendEnds(i, LocalReply)
       ELSE IF sends[i].online
       THEN IF ApiKeyMissing
            THEN SendEnds(i, LostConnection)
            ELSE SetChat([Chat EXCEPT !.sends[i].pc = "cloud",
                                      !.sends[i].cloudCalls = @ + 1,
                                      !.sends[i].requests = @ + 1,
                                      !.sends[i].fellBack = TRUE])
       ELSE SendEnds(i, Apology)
    /\ UNCHANGED appVars

\* sendChatMessage: the text it returns, or "throws" (getAiClient threw, or the
\* provider failed and the error was thrown again).  A call awaited by a
\* handleSend had a key.
SendChatMessageResult(hasKey, a) ==
    IF ~hasKey THEN "throws"
    ELSE IF a = "error" THEN "throws"
    ELSE IF a = "empty" THEN "emptyFallback"
    ELSE "cloudReply"

\* sendChatMessage settles.
CloudChatDone(i, a) ==
    /\ i \in 1..Len(sends)
    /\ sends[i].pc = "cloud"
    /\ LET res == SendChatMessageResult(apiKey, a) IN
       IF res = "throws" THEN SendEnds(i, LostConnection)
       ELSE IF res = "emptyFallback" THEN SendEnds(i, EmptyFallback)
       ELSE SendEnds(i, CloudReply)
    /\ UNCHANGED appVars

\* ------------------------------------------------------- the specification
Init ==
    /\ view = "ANALYZE"
    /\ plantData = NoPlant
    /\ selectedImage = FALSE
    /\ isAnalyzing = FALSE
    /\ error = NoError
    /\ isOnline \in BOOLEAN
    /\ isOfflineAnalysis = FALSE
    /\ imageClassifier = "loading"
    /\ windowAi \in BOOLEAN
    /\ apiKey \in BOOLEAN
    /\ reqs = <<>>
    /\ lastReq = NoReq
    /\ resetSinceStart = FALSE
    /\ history = <<>>
    /\ isLoading = FALSE
    /\ isLocalAI = FALSE
    /\ localSession = NoSession
    /\ cleanupSession = NoSession
    /\ inits = <<>>
    /\ sends = <<>>
    /\ sessions = <<>>
    /\ lastSend = "none"


\* The files picked and the answers given in the ChatBot's specification.
PlainFiles == {[present |-> TRUE, heic |-> FALSE, decodable |-> TRUE]}

\* The whole application: every App handler is followed by what the render does
\* to the ChatBot.
Next ==
    \/ \E file \in Files : HandleFileSelect(file) /\ ChatFollows
    \/ \E i \in DOMAIN reqs, ok \in BOOLEAN : HeicDone(i, ok) /\ ChatFollows
    \/ \E i \in DOMAIN reqs, ok \in BOOLEAN : ReadDone(i, ok) /\ ChatFollows
    \/ \E i \in DOMAIN reqs, a \in IdentifyAnswers : IdentifyPlantDone(i, a) /\ ChatFollows
    \/ \E i \in DOMAIN reqs, labels \in LabelLists : ImgLoaded(i, labels) /\ ChatFollows
    \/ \E i \in DOMAIN reqs, ok \in BOOLEAN : LocalCreateDone(i, ok) /\ ChatFollows
    \/ \E i \in DOMAIN reqs, ok \in BOOLEAN, text \in LocalTexts :
          LocalPromptDone(i, ok, text) /\ ChatFollows
    \/ ResetApp /\ ChatFollows
    \/ \E v \in {"ANALYZE", "CHAT"} : SetView(v) /\ ChatFollows
    \/ \E online \in BOOLEAN : Connectivity(online) /\ ChatFollows
    \/ \E ok \in BOOLEAN : InitMediaPipeDone(ok) /\ ChatFollows
    \/ \E i \in DOMAIN inits, avail \in Availabilities : InitProbeDone(i, avail)
    \/ \E i \in DOMAIN inits, ok \in BOOLEAN : InitCreateDone(i, ok)
    \/ \E txt \in Inputs : HandleSend(txt)
    \/ \E i \in DOMAIN sends, ok \in BOOLEAN : PromptDone(i, ok)
    \/ \E i \in DOMAIN sends, a \in CloudAnswers : CloudChatDone(i, a)

Spec == Init /\ [][Next]_vars

\* The App component by itself.  No App handler reads the ChatBot's state, so the
\* App's behaviours are those of its handlers with the ChatBot left out.
NextApp ==
    \/ \E file \in Files : HandleFileSelect(file) /\ UNCHANGED chatVars
    \/ \E i \in DOMAIN reqs, ok \in BOOLEAN : HeicDone(i, ok) /\ UNCHANGED chatVars
    \/ \E i \in DOMAIN reqs, ok \in BOOLEAN : ReadDone(i, ok) /\ UNCHANGED chatVars
    \/ \E i \in DOMAIN reqs, a \in IdentifyAnswers :
          IdentifyPlantDone(i, a) /\ UNCHANGED chatVars
    \/ \E i \in DOMAIN reqs, labels \in LabelLists : ImgLoaded(i, labels) /\ UNCHANGED chatVars
    \/ \E i \in DOMAIN reqs, ok \in BOOLEAN : LocalCreateDone(i, ok) /\ UNCHANGED chatVars
    \/ \E i \in DOMAIN reqs, ok \in BOOLEAN, text \in LocalTexts :
          LocalPromptDone(i, ok, text) /\ UNCHANGED chatVars
    \/ ResetApp /\ UNCHANGED chatVars
    \/ \E v \in {"ANALYZE", "CHAT"} : SetView(v) /\ UNCHANGED chatVars
    \/ \E online \in BOOLEAN : Connectivity(online) /\ UNCHANGED chatVars
    \/ \E ok \in BOOLEAN : InitMediaPipeDone(ok) /\ UNCHANGED chatVars

SpecApp == Init /\ [][NextApp]_vars

\* A promise a request awaits settles when it can: the conversion, the read, the
\* provider calls and the image load are not postponed forever.  (An image that
\* cannot be decoded never fires onload, so ImgLoaded is then not enabled.)
ReqStep ==
    \E i \in DOMAIN reqs :
        \/ \E ok \in BOOLEAN : HeicDone(i, ok)
        \/ \E ok \in BOOLEAN : ReadDone(i, ok)
        \/ \E a \in CloudAnswers : IdentifyPlantDone(i, a)
        \/ \E labels \in LabelLists : ImgLoaded(i, labels)
        \/ \E ok \in BOOLEAN : LocalCreateDone(i, ok)
        \/ \E ok \in BOOLEAN, text \in LocalTexts : LocalPromptDone(i, ok, text)

FairSpecApp == SpecApp /\ WF_vars(ReqStep /\ UNCHANGED chatVars)

\* The ChatBot under its parent.  The App is the one above in a host where
\* window.ai exists, the user picks plain image files, the cloud identifies
\* every plant as the same one, and the classifier's model is still loading
\* (initMediaPipe has not settled); the steps of the App that this leaves
\* disabled are left out.
NextChat ==
    \/ \E file \in PlainFiles : HandleFileSelect(file) /\ ChatFollows
    \/ \E i \in DOMAIN reqs, ok \in BOOLEAN : ReadDone(i, ok) /\ ChatFollows
    \/ \E i \in DOMAIN reqs, a \in CloudAnswers : IdentifyPlantDone(i, a) /\ ChatFollows
    \/ \E i \in DOMAIN reqs, labels \in LabelLists : ImgLoaded(i, labels) /\ ChatFollows
    \/ ResetApp /\ ChatFollows
    \/ \E v \in {"ANALYZE", "CHAT"} : SetView(v) /\ ChatFollows
    \/ \E online \in BOOLEAN : Connectivity(online) /\ ChatFollows
    \/ \E i \in DOMAIN inits, avail \in Availabilities : InitProbeDone(i, avail)
    \/ \E i \in DOMAIN inits, ok \in BOOLEAN : InitCreateDone(i, ok)
    \/ \E txt \in Inputs : HandleSend(txt)
    \/ \E i \in DOMAIN sends, ok \in BOOLEAN : PromptDone(i, ok)
    \/ \E i \in DOMAIN sends, a \in CloudAnswers : CloudChatDone(i, a)

InitChat == Init /\ windowAi = TRUE

SpecChat == InitChat /\ [][NextChat]_vars

\* A provider call a handleSend awaits settles when it can: neither the local
\* prompt nor the cloud call is postponed forever.
SendStep ==
    \E i \in DOMAIN sends :
        \/ \E ok \in BOOLEAN : PromptDone(i, ok)
        \/ \E a \in CloudAnswers : CloudChatDone(i, a)

FairSpecChat == SpecChat /\ WF_vars(SendStep)

\* ------------------------------------------------------------------ claims
\* C1 (as amended).  Every identification request, in flight or finished, took
\* its strategy from the connectivity flag its handler captured when it started:
\* an online request has called nothing but identifyPlant, an offline request
\* nothing but classifyImageOffline and then identifyPlantLocal, and a request
\* has run no strategy at all only while its HEIC conversion is pending or when
\* that conversion failed.
C1_StrategyFromRequestTimeConnectivity ==
    LET Consistent(r) ==
            /\ r.strategy \in {"none", "cloud", "offline"}
            /\ r.strategy = "none" => r.calls = <<>>
            /\ r.strategy = "cloud" =>
                   r.online /\ r.calls \in {<<>>, <<"identifyPlant">>}
            /\ r.strategy = "offline" =>
                   /\ ~r.online
                   /\ r.calls \in {<<>>, <<"classifyImageOffline">>,
                                   <<"classifyImageOffline", "identifyPlantLocal">>}
    IN /\ \A i \in DOMAIN reqs :
              /\ Consistent(reqs[i])
              /\ (reqs[i].strategy = "none") = (reqs[i].pc = "heic")
       /\ Consistent(lastReq)
       /\ (lastReq.result # "none" /\ lastReq.strategy = "none") =>
              (lastReq.result = "failure" /\ error = ErrHeic)

\* C1, reached: an offline request has run both steps of the offline strategy and
\* succeeded although the device is online again by the time it finished.
C1_OfflineRequestFinishedOnline ==
    /\ lastReq.strategy = "offline"
    /\ lastReq.calls = <<"classifyImageOffline", "identifyPlantLocal">>
    /\ lastReq.result = "success"
    /\ isOnline

\* C1 as stated: exactly one strategy runs per request, so every finished
\* request has run the cloud or the offline strategy.
C1_ExactlyOneStrategyPerRequest ==
    lastReq.result # "none" => lastReq.strategy \in {"cloud", "offline"}

\* C2 as stated: once the ChatBot's effects have settled with the local model
\* ready, the session the mounted ChatBot prompts is alive and was created for
\* the current plantContext.
C2_SessionRecreatedForContext ==
    (/\ view = "CHAT"
     /\ isLocalAI
     /\ localSession # NoSession
     /\ \A i \in DOMAIN inits : ~inits[i].live) =>
        /\ sessions[localSession].alive
        /\ sessions[localSession].ctx = plantData

\* C3 as stated: when no ChatBot is mounted and no createLocalSession is pending,
\* every session a ChatBot created has been destroyed.
C3_SessionsDestroyedOnTeardown ==
    (view # "CHAT" /\ inits = <<>>) =>
        \A s \in DOMAIN sessions : ~sessions[s].alive

\* C4 as stated: at most one chat session is alive at any time.
C4_AtMostOneSessionAlive ==
    Cardinality({s \in DOMAIN sessions : sessions[s].alive}) <= 1

\* C5 as stated: while the ChatBot stays mounted every step keeps the history it
\* found as a prefix of the history it leaves.
C5_HistoryAppendOnly ==
    [][(view = "CHAT" /\ view' = "CHAT") =>
          /\ Len(history') >= Len(history)
          /\ SubSeq(history', 1, Len(history)) = history]_vars

\* C6.  A chat send made while the device is offline and the local model is
\* not ready is answered with the static cannot-connect message and calls no
\* provider; the selection is local if ready, else cloud if online, else that
\* static message, which is appended in that last case only.  (A cloud call
\* made without an API key throws at once, and the send ends in the same step
\* with the lost-connection message.)
C6_OfflineSendYieldsStaticMessage ==
    [][LET userAppended == /\ Len(history') > Len(history)
                           /\ history'[Len(history) + 1] = UserTurn
           isSend == /\ view = "CHAT" /\ view' = "CHAT"
                     /\ (lastSend' # lastSend \/ userAppended)
           ready == isLocalAI /\ localSession # NoSession
           started(pc) == /\ history' = Append(history, UserTurn)
                          /\ Len(sends') = Len(sends) + 1
                          /\ sends'[Len(sends')].pc = pc
           staticAppended == /\ Len(history') = Len(history) + 2
                             /\ history'[Len(history')] = CannotConnect
       IN /\ (isSend /\ ~isOnline /\ ~ready) =>
                 /\ history' = history \o <<UserTurn, CannotConnect>>
                 /\ sends' = sends
                 /\ ~isLoading'
          /\ (isSend /\ ready) => started("prompt")
          /\ (isSend /\ ~ready /\ isOnline) =>
                 IF apiKey THEN started("cloud")
                 ELSE /\ history' = history \o <<UserTurn, LostConnection>>
                      /\ sends' = sends
                      /\ lastSend' = "threw"
                      /\ ~isLoading'
          /\ (view = "CHAT" /\ view' = "CHAT" /\ staticAppended) =>
                 (~isOnline /\ ~ready)
      ]_vars

\* C6, reached: offline, isLocalAI true and no session, a send was answered with
\* the static message.
C6_StaticMessageShown ==
    /\ view = "CHAT"
    /\ lastSend = "static"
    /\ ~isOnline
    /\ Len(history) >= 2
    /\ history[Len(history)] = CannotConnect
    /\ history[Len(history) - 1] = UserTurn

\* C7 as stated: a PlantInfo identifyPlantLocal returned has all six fields and
\* all five careInstructions fields.
C7_LocalPlantInfoComplete ==
    (lastReq.strategy = "offline" /\ lastReq.result = "success") =>
        IsCompletePlantInfo(lastReq.data)

\* C8 as stated: from resetApp until the next request starts, plantData is null.
C8_NullFromResetToNextRequest ==
    resetSinceStart => plantData = NoPlant

\* C9 as stated: a request that entered Analyzing leaves it.
C9_AnalyzingEnds ==
    isAnalyzing ~> ~isAnalyzing

\* C10 (as amended).  At most one identification is in flight, and isAnalyzing
\* is true exactly while it is; at most one chat turn of the mounted ChatBot is
\* in flight, and isLoading is true exactly while it is.  (Turns an unmounted
\* ChatBot started may still be pending beside it.)
C10_OneRequestAndOneTurnPerChatBot ==
    LET liveSends == {i \in DOMAIN sends : sends[i].live}
    IN /\ Len(reqs) <= 1
       /\ isAnalyzing = (reqs # <<>>)
       /\ Cardinality(liveSends) <= 1
       /\ isLoading = (liveSends # {})
       /\ view # "CHAT" => liveSends = {}

\* C10, reached: an identification and a chat turn are in flight together, and
\* the busy flag of each is set.
C10_BothBusy ==
    /\ isAnalyzing /\ Len(reqs) = 1
    /\ isLoading /\ \E i \in DOMAIN sends : sends[i].live

\* C10 as stated: at most one identification and at most one chat turn are in
\* flight at any time.
C10_OneRequestAndOneTurnInFlight ==
    Len(reqs) <= 1 /\ Len(sends) <= 1

\* C11.  A request for which classifyImageOffline returned an empty label list
\* ends at once: it is never in flight afterwards, identifyPlantLocal was not
\* called for it, no session was created or destroyed, nothing was prompted, and
\* it finished as a failure with plantData null, the offline error set and
\* isAnalyzing false.
C11_EmptyLabelsFailWithoutLocalModel ==
    LET empty(r) == r.classified = "yes" /\ r.labels = <<>>
        noLocalModel(r) ==
            /\ \A k \in DOMAIN r.calls : r.calls[k] # "identifyPlantLocal"
            /\ r.session = "none"
            /\ r.destroys = 0
            /\ r.text = <<>>
    IN /\ \A i \in DOMAIN reqs : ~empty(reqs[i])
       /\ empty(lastReq) =>
              /\ noLocalModel(lastReq)
              /\ lastReq.result = "failure"
              /\ lastReq.data = NoPlant
              /\ plantData = NoPlant
              /\ error = ErrOffline
              /\ ~isAnalyzing

\* C11, reached: in a host that has the local model, an offline request whose
\* classification returned no label has failed.
C11_EmptyLabelsFailed ==
    /\ windowAi
    /\ lastReq.classified = "yes"
    /\ lastReq.labels = <<>>
    /\ lastReq.calls = <<"classifyImageOffline">>
    /\ lastReq.result = "failure"

\* C12.  The session identifyPlantLocal creates is alive only while its prompt
\* is pending and has not been destroyed then; once the call has returned or
\* thrown (success, prompt failure, parse failure) the session, if one was
\* created, has been destroyed exactly once.
C12_OneShotSessionDestroyedOnce ==
    /\ \A i \in DOMAIN reqs :
          /\ reqs[i].session \in {"none", "alive"}
          /\ (reqs[i].session = "alive") = (reqs[i].pc = "prompt")
          /\ reqs[i].destroys = 0
    /\ lastReq.session \in {"none", "destroyed"}
    /\ lastReq.session = "destroyed" => lastReq.destroys = 1
    /\ lastReq.session = "none" => lastReq.destroys = 0

\* C12, reached: the local model's text did not parse, the call threw, and its
\* session has been destroyed once.
C12_DestroyedAfterParseFailure ==
    /\ lastReq.text = <<Prose, Doc("fern")>>
    /\ lastReq.result = "failure"
    /\ lastReq.session = "destroyed"
    /\ lastReq.destroys = 1

\* C13.  While the ChatBot stays mounted, a handleSend that captured isOnline
\* true and whose local prompt is pending ends directly only with the local
\* reply (or, when there is no API key and the fallback call throws at once,
\* with the lost-connection message); when it moves on instead it has fallen
\* back to sendChatMessage, called once, with nothing appended yet; and a send
\* that fell back ends by appending one model turn, the cloud's reply or the
\* lost-connection message, having called sendChatMessage once.
C13_LocalFailureOnlineFallsBackOnce ==
    [][LET live == {i \in DOMAIN sends : sends[i].live}
           liveAfter == {j \in DOMAIN sends' : sends'[j].live}
       IN (view = "CHAT" /\ view' = "CHAT") =>
            \A i \in live :
               LET s == sends[i] IN
               /\ (s.pc = "prompt" /\ s.online /\ liveAfter = {}) =>
                      \/ history' = Append(history, LocalReply)
                      \/ /\ ~apiKey
                         /\ s.cloudCalls = 0
                         /\ history' = Append(history, LostConnection)
               /\ (s.pc = "prompt" /\ s.online /\ liveAfter # {}) =>
                      \A j \in liveAfter :
                         \/ sends'[j] = s
                         \/ /\ [sends'[j] EXCEPT !.requests = s.requests] =
                                   [s EXCEPT !.pc = "cloud", !.cloudCalls = 1,
                                             !.fellBack = TRUE]
                            /\ s.cloudCalls = 0
                            /\ history' = history
               /\ (s.pc = "cloud" /\ s.fellBack) =>
                      /\ s.cloudCalls = 1
                      /\ s.online
                      /\ \A j \in liveAfter : sends'[j] = s
                      /\ liveAfter = {} =>
                             \E turn \in {CloudReply, EmptyFallback, LostConnection} :
                                 history' = Append(history, turn)
      ]_vars

\* C13, reached: a send whose local prompt threw while online has called
\* sendChatMessage and awaits it, with the user turn the last of the history.
C13_FellBackToCloud ==
    \E i \in DOMAIN sends :
        /\ sends[i].live /\ sends[i].fellBack
        /\ sends[i].pc = "cloud" /\ sends[i].cloudCalls = 1
        /\ history # <<>> /\ history[Len(history)] = UserTurn

\* C14.  While the ChatBot stays mounted, a handleSend that starts with
\* isLocalAI true and a session present prompts that session and has called
\* sendChatMessage zero times; and a send that ends by appending the local
\* model's reply never called sendChatMessage.
C14_LocalReadyUsesLocalOnly ==
    [][LET live == {i \in DOMAIN sends : sends[i].live}
           liveAfter == {j \in DOMAIN sends' : sends'[j].live}
       IN (view = "CHAT" /\ view' = "CHAT") =>
            /\ (live = {} /\ liveAfter # {} /\ isLocalAI /\ localSession # NoSession) =>
                   \A j \in liveAfter :
                       /\ sends'[j].pc = "prompt"
                       /\ sends'[j].sess = localSession
                       /\ sends'[j].cloudCalls = 0
            /\ \A i \in live :
                   (liveAfter = {} /\ history' = Append(history, LocalReply)) =>
                       /\ sends[i].pc = "prompt"
                       /\ sends[i].cloudCalls = 0
                       /\ ~sends[i].fellBack
      ]_vars

\* C14, reached: online with the local model ready, a send has ended with the
\* local model's reply.
C14_LocalReplyWhileOnline ==
    /\ view = "CHAT" /\ isOnline /\ isLocalAI /\ localSession # NoSession
    /\ ~isLoading
    /\ Len(history) >= 2
    /\ history[Len(history)] = LocalReply
    /\ history[Len(history) - 1] = UserTurn

\* C15.  While the ChatBot stays mounted, a handleSend that captured isOnline
\* false and whose local prompt is pending never moves on to sendChatMessage:
\* it ends by appending the local reply or the apology, having called the
\* cloud zero times; and the apology is appended by such a send only.
C15_LocalFailureOfflineApologises ==
    [][LET live == {i \in DOMAIN sends : sends[i].live}
           liveAfter == {j \in DOMAIN sends' : sends'[j].live}
       IN (view = "CHAT" /\ view' = "CHAT") =>
            /\ \A i \in live :
                  (sends[i].pc = "prompt" /\ ~sends[i].online) =>
                      /\ sends[i].cloudCalls = 0
                      /\ \A j \in liveAfter : sends'[j] = sends[i]
                      /\ liveAfter = {} =>
                             \/ history' = Append(history, LocalReply)
                             \/ history' = Append(history, Apology)
            /\ (Len(history') = Len(history) + 1 /\ history'[Len(history')] = Apology) =>
                  \E i \in live : /\ sends[i].pc = "prompt" /\ ~sends[i].online
                                  /\ sends[i].cloudCalls = 0
      ]_vars

\* C15, reached: offline, a send whose local prompt threw has been answered
\* with the apology.
C15_ApologyShown ==
    /\ view = "CHAT" /\ ~isOnline /\ ~isLoading
    /\ Len(history) >= 2
    /\ history[Len(history)] = Apology
    /\ history[Len(history) - 1] = UserTurn

\* C16 as stated: a connectivity event under a mounted ChatBot starts the
\* capability probe again (a new initChat is in flight after the event).
C16_ConnectivityChangeReprobes ==
    [][(view = "CHAT" /\ view' = "CHAT" /\ isOnline' # isOnline) =>
          \E j \in DOMAIN inits' :
              /\ inits'[j].live
              /\ inits'[j].pc = "probe"
              /\ Len(inits') = Len(inits) + 1]_vars

\* C17.  A connectivity event changes nothing of the identification in flight:
\* the request, isAnalyzing, plantData and error stay as they are.  Every
\* request in flight keeps running the strategy of the connectivity it captured
\* at its start, and a failed request has isAnalyzing false and the error set:
\* the message of the connectivity it captured, or the HEIC message when the
\* conversion failed.
C17_ConnectivityChangeLeavesRequestAlone ==
    /\ [][isOnline' # isOnline =>
            /\ reqs' = reqs
            /\ isAnalyzing' = isAnalyzing
            /\ plantData' = plantData
            /\ error' = error
            /\ lastReq' = lastReq]_vars
    /\ [](\A i \in DOMAIN reqs :
             /\ isAnalyzing
             /\ reqs[i].pc \in {"read", "cloud"} =>
                    reqs[i].online /\ reqs[i].strategy = "cloud"
             /\ reqs[i].pc \in {"imgLoad", "create", "prompt"} =>
                    ~reqs[i].online /\ reqs[i].strategy = "offline")
    /\ [](lastReq.result = "failure" =>
             /\ ~isAnalyzing
             /\ error = (IF lastReq.strategy = "none" THEN ErrHeic
                         ELSE IF lastReq.online THEN ErrOnline ELSE ErrOffline)
             /\ (lastReq.strategy = "cloud") => lastReq.online
             /\ (lastReq.strategy = "offline") => ~lastReq.online)

\* C17, reached: connectivity dropped while a cloud request was in flight, the
\* request failed, and the failure is shown with the online message.
C17_CloudRequestFailedAfterDrop ==
    /\ ~isOnline
    /\ lastReq.strategy = "cloud" /\ lastReq.online
    /\ lastReq.calls = <<"identifyPlant">>
    /\ lastReq.result = "failure"
    /\ error = ErrOnline
    /\ ~isAnalyzing

\* ---------------------------------------------------------------------------
\* C18 (as amended).  Every successful cloud identification, the provider
\* answering within the responseSchema, yields a record in which all six
\* top-level fields and all five careInstructions sub-fields are present.
C18_CloudPlantInfoHasRequiredFields ==
    (lastReq.strategy = "cloud" /\ lastReq.result = "success") =>
        /\ IsCompletePlantInfo(lastReq.data)
        /\ plantData # NoPlant => IsCompletePlantInfo(plantData)

\* C18 (as stated).  Every successful cloud identification yields a record in
\* which all six top-level fields and all five sub-fields are non-empty.
C18_CloudPlantInfoNonEmpty ==
    (lastReq.strategy = "cloud" /\ lastReq.result = "success") =>
        /\ IsCompletePlantInfo(lastReq.data)
        /\ lastReq.data.empty = {}

\* C18 witness: a cloud identification succeeded with a record that has every
\* field, one of them an empty string, and the App shows it.
C18_CloudRecordWithBlankField ==
    /\ lastReq.strategy = "cloud"
    /\ lastReq.result = "success"
    /\ IsCompletePlantInfo(lastReq.data)
    /\ lastReq.data.empty = {"funFact"}
    /\ plantData = lastReq.data

\* ---------------------------------------------------------------------------
\* C19.  The history starts as a single greeting turn and every send that
\* passes the guards appends one user turn and then one model turn: a history
\* that is not empty is a greeting followed by user and model turns in
\* alternation, the user turn first.
C19_HistoryIsGreetingThenExchanges ==
    (view = "CHAT" /\ history # <<>>) =>
        /\ history[1] \in {Greeting(ctx) : ctx \in {NoPlant} \cup {JsonValue(d) : d \in Documents}}
        /\ \A k \in 2..Len(history) :
               history[k].role = IF k % 2 = 0 THEN "user" ELSE "model"

\* ---------------------------------------------------------------------------
\* C20.  For local-model output that is a JSON document wrapped in fences, the
\* opening one followed by json, identifyPlantLocal strips the fences and
\* returns a record equal to the parse of the unfenced document.
C20_FencedJsonParsesAsUnfenced ==
    \A d \in Documents :
        LET fenced == { <<Fence, JsonWord, Ws, Doc(d), Ws, Fence>>,
                        <<Fence, JsonWord, Doc(d), Fence>>,
                        <<Ws, Fence, JsonWord, Ws, Doc(d), Ws, Fence, Ws>> }
            unfenced == JSONParse(<<Doc(d)>>)
        IN (lastReq.strategy = "offline" /\ lastReq.text \in fenced) =>
               /\ lastReq.result = "success"
               /\ lastReq.data = unfenced.value

\* ---------------------------------------------------------------------------
\* C21.  identifyPlant fails when the provider returns no text and throws the
\* provider's error again when the provider fails; in both cases the request
\* was sent to the provider once, never again, and no PlantInfo is returned.
C21_IdentifyPlantFailsWithoutRetry ==
    /\ IdentifyPlantResult(TRUE, "empty") =
           [ok |-> FALSE, value |-> NoPlant, err |-> "noText"]
    /\ IdentifyPlantResult(TRUE, "error") =
           [ok |-> FALSE, value |-> NoPlant, err |-> "provider"]
    /\ \A i \in DOMAIN reqs : reqs[i].requests <= 1
    /\ lastReq.requests <= 1
    /\ lastReq.thrown \in {"noText", "provider"} =>
           /\ lastReq.calls = <<"identifyPlant">>
           /\ lastReq.requests = 1
           /\ lastReq.result = "failure"
           /\ lastReq.data = NoPlant
           /\ plantData = NoPlant
           /\ \A i \in DOMAIN reqs : reqs[i].pc # "cloud"

\* C21 witness: the provider answered without a text and the request failed
\* after its one call.
C21_NoTextFailed ==
    /\ lastReq.thrown = "noText"
    /\ lastReq.requests = 1
    /\ lastReq.result = "failure"
    /\ error = ErrOnline
    /\ ~isAnalyzing

\* ---------------------------------------------------------------------------
\* C22.  checkLocalAICapability returns true only when window.ai exists and
\* reports 'readily'; for 'after-download', for 'no', without window.ai and
\* when the capabilities query throws it returns false.  It does not throw
\* (initChat goes on to its greeting after a false answer) and it creates no
\* session.
C22_CapabilityProbeIsTotalAndPure ==
    /\ [](\A hasAi \in BOOLEAN, avail \in Availabilities :
              CheckLocalAICapability(hasAi, avail) = (hasAi /\ avail = "readily"))
    /\ [][\A i \in DOMAIN inits, avail \in Availabilities :
              InitProbeDone(i, avail) =>
                  /\ sessions' = sessions
                  /\ localSession' = localSession
                  /\ inits[i].live => isLocalAI' = (avail = "readily")
                  /\ (avail # "readily" /\ inits[i].live /\ inits[i].histEmpty) =>
                         history' = <<Greeting(inits[i].ctx)>>
                  /\ avail # "readily" => Len(inits') = Len(inits) - 1
         ]_vars

\* C22 witness: the mounted ChatBot's probe has answered false, its initChat
\* has ended with the greeting, and no session exists.
C22_ProbeAnsweredFalse ==
    /\ view = "CHAT"
    /\ windowAi
    /\ ~isLocalAI
    /\ inits = <<>>
    /\ history = <<Greeting(plantData)>>
    /\ sessions = <<>>

\* ---------------------------------------------------------------------------
\* C23.  Without an API key no cloud call sends a request to the provider:
\* identifyPlant and sendChatMessage throw first.  An identification that
\* called identifyPlant ends in failure, and a chat send that called
\* sendChatMessage ends with one assistant turn, the error message.
C23_NoApiKeyNoCloudRequest ==
    /\ [](~apiKey =>
            /\ \A i \in DOMAIN reqs : reqs[i].requests = 0
            /\ \A i \in DOMAIN sends : sends[i].requests = 0
            /\ lastReq.requests = 0
            /\ lastReq.calls = <<"identifyPlant">> =>
                   /\ lastReq.result = "failure"
                   /\ lastReq.thrown = "noApiKey"
                   /\ lastReq.data = NoPlant
                   /\ plantData = NoPlant
                   /\ error = ErrOnline)
    /\ [](~apiKey => \A i \in DOMAIN sends : sends[i].pc # "cloud")
    /\ [][(~apiKey /\ view = "CHAT" /\ view' = "CHAT") =>
             /\ (/\ Len(history') > Len(history)
                 /\ history'[Len(history) + 1] = UserTurn
                 /\ isOnline /\ ~UseLocal) =>
                    /\ lastSend' = "threw"
                    /\ history' = history \o <<UserTurn, LostConnection>>
                    /\ sends' = sends
                    /\ ~isLoading'
             /\ \A i \in DOMAIN sends :
                    (/\ sends[i].live
                     /\ sends[i].pc = "prompt"
                     /\ sends[i].online
                     /\ \A j \in DOMAIN sends' : ~sends'[j].live) =>
                        /\ \/ history' = Append(history, LocalReply)
                           \/ history' = Append(history, LostConnection)
                        /\ ~isLoading'
         ]_vars

\* C23 witness: without an API key an identification has failed in
\* identifyPlant and a chat send has ended with the error message.
C23_BothFailedWithoutKey ==
    /\ ~apiKey
    /\ lastReq.thrown = "noApiKey"
    /\ lastReq.result = "failure"
    /\ view = "CHAT"
    /\ sends = <<>>
    /\ Len(history) >= 2
    /\ history[Len(history) - 1] = UserTurn
    /\ history[Len(history)] = LostConnection

\* ---------------------------------------------------------------------------
\* C24.  Whenever the mounted ChatBot has a plantContext with a commonName and
\* its initChat calls have ended, the first turn of the history is the
\* greeting that names that plant, also when the plantContext arrived after
\* the ChatBot was mounted.
C24_GreetingNamesPlant ==
    (/\ view = "CHAT"
     /\ ~plantData.isNull
     /\ "commonName" \in plantData.fields
     /\ \A i \in DOMAIN inits : ~inits[i].live) =>
        /\ history # <<>>
        /\ history[1] = Turn("model", "greeting", plantData.commonName)

\* ---------------------------------------------------------------------------
\* C25 (as amended).  classifyImageOffline throws if and only if the classifier
\* is not loaded when it is called, which is when the image has loaded, not
\* when the request started.  A failed initMediaPipe sets no error and leaves
\* the classifier unloaded.  An offline identification whose classification
\* threw ends in failure with the offline message and without a call of the
\* local model; so does every offline identification that ends after it
\* started with the classifier's initialisation already failed.
C25_ClassifierCheckedAtClassification ==
    /\ [](\A c \in {"loading", "unloaded", "loaded"}, labels \in LabelLists :
              ClassifyImageOffline(c, labels).ok = (c = "loaded"))
    /\ [](/\ lastReq.classified = "threw" =>
                 /\ lastReq.result = "failure"
                 /\ lastReq.calls = <<"classifyImageOffline">>
                 /\ lastReq.session = "none"
                 /\ error = ErrOffline
                 /\ plantData = NoPlant
          /\ (lastReq.result # "none" /\ lastReq.strategy = "offline"
                /\ lastReq.startClassifier = "unloaded") =>
                 lastReq.classified = "threw")
    /\ [][/\ InitMediaPipeDone(FALSE) =>
               /\ imageClassifier' = "unloaded"
               /\ error' = error /\ isAnalyzing' = isAnalyzing /\ reqs' = reqs
          /\ \A i \in DOMAIN reqs :
               (reqs[i].pc = "imgLoad" /\ Len(reqs') < Len(reqs)
                  /\ imageClassifier # "loaded") =>
                   lastReq'.classified = "threw"
          /\ \A i \in DOMAIN reqs :
               (reqs[i].pc = "imgLoad" /\ imageClassifier = "loaded"
                  /\ (Len(reqs') < Len(reqs) \/ reqs'[i].pc # "imgLoad")) =>
                   \/ Len(reqs') < Len(reqs) /\ lastReq'.classified = "yes"
                   \/ Len(reqs') = Len(reqs) /\ reqs'[i].classified = "yes"
         ]_vars

\* C25 as stated: an offline identification started while the classifier was
\* not loaded ends in failure without a call of the local model.
C25_UnloadedAtStartFails ==
    (/\ lastReq.result # "none"
     /\ lastReq.strategy = "offline"
     /\ lastReq.startClassifier # "loaded") =>
        /\ lastReq.result = "failure"
        /\ lastReq.calls = <<"classifyImageOffline">>

\* C25 witness: the initialisation failed, and an offline identification
\* started after that has failed in classifyImageOffline.
C25_FailedInUnloadedClassifier ==
    /\ imageClassifier = "unloaded"
    /\ lastReq.startClassifier = "unloaded"
    /\ lastReq.classified = "threw"
    /\ lastReq.result = "failure"
    /\ error = ErrOffline

\* ---------------------------------------------------------------------------
\* C26.  The ChatBot never calls prompt() on a local session after destroy()
\* was called on it: whenever handleSend takes the local branch, the session it
\* prompts is alive, and a session is destroyed only by the cleanup of an
\* unmounting ChatBot, whose handleSend cannot be called afterwards.
C26_NoPromptAfterDestroy ==
    /\ [][(/\ Len(sends') = Len(sends) + 1
            /\ sends'[Len(sends')].pc = "prompt") =>
                /\ localSession # NoSession
                /\ sessions[localSession].alive
                /\ sends'[Len(sends')].sess = localSession]_vars
    /\ [](localSession # NoSession => sessions[localSession].alive)
    /\ [][\A s \in DOMAIN sessions :
              (sessions[s].alive /\ ~sessions'[s].alive) =>
                  (view = "CHAT" /\ view' # "CHAT" /\ localSession' = NoSession)]_vars

\* C26 witness: an earlier ChatBot's session was destroyed when it unmounted,
\* and the mounted ChatBot has called prompt() on its own session, which is
\* alive.
C26_PromptOnLiveSessionAfterDestroy ==
    /\ view = "CHAT"
    /\ \E s \in DOMAIN sessions : ~sessions[s].alive
    /\ \E i \in DOMAIN sends :
           /\ sends[i].live
           /\ sends[i].pc = "prompt"
           /\ sends[i].sess = localSession
           /\ sessions[localSession].alive

\* ---------------------------------------------------------------------------
\* C27.  In the ANALYZE view, whenever error is non-null and no analysis is
\* running, the Identification Failed panel with that error is what is
\* rendered; after a failed HEIC conversion that is the HEIC message.
C27_ErrorPanelShownForError ==
    (view = "ANALYZE" /\ error # NoError /\ ~isAnalyzing) =>
        MainContent = "errorPanel"

\* ---------------------------------------------------------------------------
\* C28.  error and plantData are never both non-null: the start of a request
\* clears both, a success sets only plantData, and a failure sets only error
\* and leaves plantData null.
C28_ErrorAndPlantDataExclusive ==
    /\ [](~(error # NoError /\ plantData # NoPlant))
    /\ [](lastReq.result = "failure" => (error # NoError /\ plantData = NoPlant))
    /\ [](lastReq.result = "success" => (error = NoError /\ plantData = lastReq.data))
    /\ [][(Len(reqs') = Len(reqs) + 1) =>
             (error' = NoError /\ plantData' = NoPlant)]_vars

\* C28 witness: a request has failed with its image shown: the error is set and
\* there is no record.
C28_FailureLeavesOnlyError ==
    /\ lastReq.result = "failure"
    /\ error # NoError
    /\ plantData = NoPlant
    /\ selectedImage
    /\ ~isAnalyzing

\* ---------------------------------------------------------------------------
\* C29.  Every chat send that sets isLoading to true sets it back to false once
\* its provider calls have settled, whatever their outcome: isLoading is true
\* only while a handleSend of the mounted ChatBot awaits a provider, the step
\* in which that handleSend ends clears it, and with the provider calls
\* settling it does not stay true.
C29_LoadingEnds ==
    /\ [](isLoading => \E i \in DOMAIN sends :
                           sends[i].live /\ sends[i].pc \in {"prompt", "cloud"})
    /\ [][(/\ view = "CHAT" /\ view' = "CHAT"
           /\ \E i \in DOMAIN sends : sends[i].live
           /\ \A j \in DOMAIN sends' : ~sends'[j].live) =>
              (isLoading /\ ~isLoading')]_vars
    /\ (isLoading ~> ~isLoading)

\* C29 witness: a send whose cloud call failed has ended and the busy flag is
\* clear again.
C29_LoadingClearedAfterFailure ==
    /\ view = "CHAT"
    /\ apiKey
    /\ lastSend = "started"
    /\ sends = <<>>
    /\ history # <<>>
    /\ history[Len(history)] = LostConnection
    /\ ~isLoading

====
